---- MODULE Spec2Model ----
(***************************************************************************)
(* A model of the AiiDA phonon calculator MCP server (src/server.py).      *)
(*                                                                         *)
(* The server handles one request at a time.  A request is a tool call     *)
(* (handle_call_tool), a resource read (handle_read_resource) or one of    *)
(* the two listings.  Each handler is one action.  What a handler leaves   *)
(* behind is its return value or the exception it raised, the external     *)
(* commands it launched (subprocess.run) and the files it wrote.  Respond  *)
(* hands the outcome to the caller; the request and its result are then    *)
(* discarded and only the working directory lives on.                      *)
(*                                                                         *)
(* Texts are TLA+ strings; Python's substring test, str.split and          *)
(* re.search(r'\d+') are computed character by character.                  *)
(* Python values that may be None or a list are tagged records (PyStr,     *)
(* PyNone, PyList).                                                        *)
(***************************************************************************)
EXTENDS Integers, Sequences, FiniteSets, TLC

VARIABLES
    request,    \* the request being handled: [kind, name, arguments, now, templates]
    outcome,    \* "none" (waiting for a request), "returned" or "raised"
    error,      \* the exception class raised to the caller, "" if none
    result,     \* the returned text segments (TextContent.text), in order
    ran,        \* the operations (methods of AiidaMCPServer) entered, in order
    launched,   \* the subprocess.run calls of this request: [argv, oc], in order
    files,      \* the working directory: path -> [content, mode]
    firstCheck  \* history: the first check_prerequisites call and its result

vars == <<request, outcome, error, result, ran, launched, files, firstCheck>>

(***************************************************************************)
(* Bounds.                                                                 *)
(***************************************************************************)
\* The number of generated scripts the working directory may hold.
MaxFiles == 1

(***************************************************************************)
(* Python values and string functions.                                     *)
(***************************************************************************)
PyStr(s) == [t |-> "str", v |-> s]
PyNone == [t |-> "None"]
PyList(l) == [t |-> "list", v |-> l]

\* bool(x): None, "" and [] are falsy.
Truthy(x) ==
    CASE x.t = "None" -> FALSE
      [] x.t = "str" -> x.v # ""
      [] x.t = "list" -> Len(x.v) > 0

Digits == {"0", "1", "2", "3", "4", "5", "6", "7", "8", "9"}

DigitStr(d) ==
    CASE d = 0 -> "0" [] d = 1 -> "1" [] d = 2 -> "2" [] d = 3 -> "3"
      [] d = 4 -> "4" [] d = 5 -> "5" [] d = 6 -> "6" [] d = 7 -> "7"
      [] d = 8 -> "8" [] d = 9 -> "9"

\* str(n) for a natural number n.
RECURSIVE IntStr(_)
IntStr(n) == IF n < 10 THEN DigitStr(n) ELSE IntStr(n \div 10) \o DigitStr(n % 10)

\* ", ".join(str(n) for n in l)
RECURSIVE JoinInts(_)
JoinInts(l) ==
    IF Len(l) = 0 THEN ""
    ELSE IF Len(l) = 1 THEN IntStr(l[1])
    ELSE IntStr(l[1]) \o ", " \o JoinInts(Tail(l))

\* format(x) as an f-string field renders it.
Str(x) ==
    CASE x.t = "None" -> "None"
      [] x.t = "str" -> x.v
      [] x.t = "list" -> "[" \o JoinInts(x.v) \o "]"

\* sub in s
Contains(sub, s) ==
    \E i \in 1..(Len(s) - Len(sub) + 1) : SubSeq(s, i, i + Len(sub) - 1) = sub

\* s.split('\n'): the pieces between newlines, empty pieces kept.
RECURSIVE SplitLines(_)
SplitLines(s) ==
    IF \A i \in 1..Len(s) : SubSeq(s, i, i) # "\n" THEN <<s>>
    ELSE LET k == CHOOSE i \in 1..Len(s) :
                    /\ SubSeq(s, i, i) = "\n"
                    /\ \A j \in 1..(i - 1) : SubSeq(s, j, j) # "\n"
         IN <<SubSeq(s, 1, k - 1)>> \o SplitLines(SubSeq(s, k + 1, Len(s)))

IsDigit(s, i) == SubSeq(s, i, i) \in Digits

NoMatch == [found |-> FALSE, group |-> ""]

\* re.search(r'\d+', line): the leftmost, longest run of digits.
ReSearchDigits(line) ==
    IF \A i \in 1..Len(line) : ~IsDigit(line, i) THEN NoMatch
    ELSE LET a == CHOOSE i \in 1..Len(line) :
                    /\ IsDigit(line, i)
                    /\ \A j \in 1..(i - 1) : ~IsDigit(line, j)
             b == CHOOSE i \in a..Len(line) :
                    /\ \A j \in a..i : IsDigit(line, j)
                    /\ (i = Len(line) \/ ~IsDigit(line, i + 1))
         IN [found |-> TRUE, group |-> SubSeq(line, a, b)]

(***************************************************************************)
(* External processes.  subprocess.run either raises at launch or returns  *)
(* a CompletedProcess.                                                     *)
(***************************************************************************)
Completed(rc, out, err) ==
    [raises |-> FALSE, returncode |-> rc, stdout |-> out, stderr |-> err, exc |-> ""]

LaunchError(msg) ==
    [raises |-> TRUE, returncode |-> 0, stdout |-> "", stderr |-> "", exc |-> msg]

\* One subprocess.run call: the command line and what came of it.
Run(argv, oc) == [argv |-> argv, oc |-> oc]

\* What an operation leaves behind.
Returned(segments, runs, fs) ==
    [outcome |-> "returned", error |-> "", result |-> segments,
     launched |-> runs, files |-> fs]

Raised(exc, runs, fs) ==
    [outcome |-> "raised", error |-> exc, result |-> <<>>,
     launched |-> runs, files |-> fs]

(***************************************************************************)
(* check_prerequisites                                                     *)
(***************************************************************************)
\* The check mark of the status lines, written in ASCII.
Mark == "[v]"

Installed(b) == IF b THEN "Installed" ELSE "Not found"

CodeStatus(oc) ==
    IF oc.raises THEN "Error checking codes: " \o oc.exc
    ELSE LET codes == oc.stdout
             has_pw == Contains("pw-", codes)
             has_phonopy == Contains("phonopy", codes)
         IN "Code Status:\n"
            \o Mark \o " Quantum ESPRESSO: " \o Installed(has_pw) \o "\n"
            \o Mark \o " Phonopy: " \o Installed(has_phonopy) \o "\n"

PseudoStatus(oc) ==
    IF oc.raises THEN "Error checking pseudopotentials: " \o oc.exc
    ELSE LET pseudos == oc.stdout
             has_pbesol == Contains("PBEsol", pseudos)
         IN "\nPseudopotential Status:\n"
            \o Mark \o " PBEsol: " \o Installed(has_pbesol) \o "\n"

\* Faulty variant: one try block around both checks, so that a launch error of
\* the first command ends the operation.
check_prerequisites_single_try(env) ==
    IF env[1].raises
    THEN Returned(<<"Error checking codes: " \o env[1].exc>>,
                  <<Run(<<"verdi", "code", "list">>, env[1])>>, files)
    ELSE Returned(<<CodeStatus(env[1]), PseudoStatus(env[2])>>,
                  <<Run(<<"verdi", "code", "list">>, env[1]),
                    Run(<<"aiida-pseudo", "list">>, env[2])>>,
                  files)

\* Faulty variant: the result depends on what earlier requests left in the
\* working directory.
check_prerequisites_reading_cwd(env) ==
    Returned(<<CodeStatus(env[1]), PseudoStatus(env[2])>>
               \o (IF DOMAIN files = {} THEN <<>>
                   ELSE <<"Generated scripts: " \o IntStr(Cardinality(DOMAIN files))>>),
             <<Run(<<"verdi", "code", "list">>, env[1]),
               Run(<<"aiida-pseudo", "list">>, env[2])>>,
             files)

\* env: the outcomes of the two listing commands, in launch order.
check_prerequisites(env) ==
    Returned(<<CodeStatus(env[1]), PseudoStatus(env[2])>>,
             <<Run(<<"verdi", "code", "list">>, env[1]),
               Run(<<"aiida-pseudo", "list">>, env[2])>>,
             files)

(***************************************************************************)
(* install_code                                                            *)
(***************************************************************************)
\* Faulty variant: the two configuration files exchanged.
config_map_swapped == [pw |-> "phonopy.yaml", phonopy |-> "pw-7.3.yaml"]

config_map == [pw |-> "pw-7.3.yaml", phonopy |-> "phonopy.yaml"]

\* Path(os.path.dirname(__file__), "configs").joinpath(config_file)
ConfigFilePath(config_file) == "configs/" \o config_file

install_code(code_type, env) ==
    IF ~(code_type.t = "str" /\ code_type.v \in DOMAIN config_map)
    THEN Returned(<<"Unknown code type: " \o Str(code_type)>>, <<>>, files)
    ELSE LET config_file == config_map[code_type.v]
             argv == <<"verdi", "code", "create", "core.code.installed",
                       "--config", ConfigFilePath(config_file),
                       "--no-use-double-quotes">>
             oc == env[1]
             text == IF oc.raises THEN "Installation failed: " \o oc.exc
                     ELSE IF oc.returncode = 0
                     THEN "Successfully installed " \o Str(code_type)
                          \o " code:\n" \o oc.stdout
                     ELSE "Error installing " \o Str(code_type) \o ":\n" \o oc.stderr
         IN Returned(<<text>>, <<Run(argv, oc)>>, files)

(***************************************************************************)
(* install_pseudopotentials                                                *)
(***************************************************************************)
\* Faulty variant: a failed install is tried a second time.
install_pseudopotentials_retry(library, functional, version, env) ==
    LET argv == <<"aiida-pseudo", "install", Str(library),
                  "-x", Str(functional), "-v", Str(version)>>
        oc == env[1]
        text == IF oc.raises THEN "Installation failed: " \o oc.exc
                ELSE IF oc.returncode = 0
                THEN "Successfully installed " \o Str(functional)
                     \o " pseudopotentials:\n" \o oc.stdout
                ELSE "Error installing pseudopotentials:\n" \o oc.stderr
        runs == IF oc.raises \/ oc.returncode # 0
                THEN <<Run(argv, oc), Run(argv, oc)>>
                ELSE <<Run(argv, oc)>>
    IN Returned(<<text>>, runs, files)

install_pseudopotentials(library, functional, version, env) ==
    LET argv == <<"aiida-pseudo", "install", Str(library),
                  "-x", Str(functional), "-v", Str(version)>>
        oc == env[1]
        text == IF oc.raises THEN "Installation failed: " \o oc.exc
                ELSE IF oc.returncode = 0
                THEN "Successfully installed " \o Str(functional)
                     \o " pseudopotentials:\n" \o oc.stdout
                ELSE "Error installing pseudopotentials:\n" \o oc.stderr
    IN Returned(<<text>>, <<Run(argv, oc)>>, files)

(***************************************************************************)
(* generate_phonon_script                                                  *)
(***************************************************************************)
\* A two-digit, zero-padded field of strftime.
Pad2(n) == IF n < 10 THEN "0" \o IntStr(n) ELSE IntStr(n)

\* A four-digit year (years from 1000 on).
Pad4(n) == IntStr(n)

\* now.strftime("%Y%m%d_%H%M%S")
strftime_stamp(now) ==
    Pad4(now.year) \o Pad2(now.month) \o Pad2(now.day) \o "_"
    \o Pad2(now.hour) \o Pad2(now.minute) \o Pad2(now.second)

\* now.strftime("%Y-%m-%d %H:%M:%S")
strftime_human(now) ==
    Pad4(now.year) \o "-" \o Pad2(now.month) \o "-" \o Pad2(now.day) \o " "
    \o Pad2(now.hour) \o ":" \o Pad2(now.minute) \o ":" \o Pad2(now.second)

\* The keyword parameters of generate_phonon_script and their defaults.
GenerateParams ==
    {"material", "structure_file", "protocol", "kpoints", "supercell",
     "pw_code", "phonopy_code"}

GenerateRequired == {"material", "structure_file"}

GenerateDefaults ==
    [protocol |-> PyStr("moderate"), kpoints |-> PyNone, supercell |-> PyNone,
     pw_code |-> PyStr("pw-7.3@localhost"),
     phonopy_code |-> PyStr("phonopy@localhost")]

\* Whether the call generate_phonon_script(**arguments) binds its parameters:
\* no unexpected keyword, no required parameter missing.
Binds(arguments) ==
    /\ DOMAIN arguments \subseteq GenerateParams
    /\ GenerateRequired \subseteq DOMAIN arguments

\* The parameters as bound by the call, defaults filled in.
Bound(arguments) ==
    [k \in GenerateParams |->
        IF k \in DOMAIN arguments THEN arguments[k] ELSE GenerateDefaults[k]]

\* kpoints = kpoints or [3, 3, 3]; supercell = supercell or [2, 2, 2]
OrDefault(x, d) == IF Truthy(x) THEN x ELSE PyList(d)

Effective(b) ==
    [b EXCEPT !.kpoints = OrDefault(b.kpoints, <<3, 3, 3>>),
              !.supercell = OrDefault(b.supercell, <<2, 2, 2>>)]

ScriptName(p, now) ==
    "phonon_calculation_" \o Str(p.material) \o "_" \o strftime_stamp(now) \o ".py"

\* The mode set by script_path.chmod(0o755).
ExecMode == 493

ScriptContent(p, now) ==
       "#!/usr/bin/env python3\n"
    \o "\"\"\"\n"
    \o "Phonon band structure calculation for " \o Str(p.material) \o "\n"
    \o "Generated on " \o strftime_human(now) \o "\n"
    \o "\"\"\"\n"
    \o "\n"
    \o "from aiida import load_profile\n"
    \o "from aiida.plugins import DbImporterFactory\n"
    \o "from ase import io\n"
    \o "from aiida import orm\n"
    \o "from aiida.plugins import WorkflowFactory\n"
    \o "from aiida.engine import run_get_node\n"
    \o "from aiida_vibroscopy.common.properties import PhononProperty\n"
    \o "\n"
    \o "# Load AiiDA profile\n"
    \o "load_profile()\n"
    \o "\n"
    \o "print(\"Starting phonon calculation for " \o Str(p.material) \o "\")\n"
    \o "print(\"=\" * 50)\n"
    \o "\n"
    \o "# Load structure\n"
    \o "print(f\"Loading structure from: " \o Str(p.structure_file) \o "\")\n"
    \o "structure = io.read('" \o Str(p.structure_file) \o "')\n"
    \o "\n"
    \o "# Setup workflow\n"
    \o "PhononWorkChain = WorkflowFactory(\"vibroscopy.phonons.phonon\")\n"
    \o "\n"
    \o "print(\"Building workflow with protocol: " \o Str(p.protocol) \o "\")\n"
    \o "builder = PhononWorkChain.get_builder_from_protocol(\n"
    \o "    pw_code=orm.load_code('" \o Str(p.pw_code) \o "'),\n"
    \o "    structure=orm.StructureData(ase=structure),\n"
    \o "    protocol=\"" \o Str(p.protocol) \o "\",\n"
    \o "    phonopy_code=orm.load_code('" \o Str(p.phonopy_code) \o "'),\n"
    \o "    phonon_property=PhononProperty.BANDS\n"
    \o ")\n"
    \o "\n"
    \o "# Configure parameters\n"
    \o "print(f\"Setting supercell: " \o Str(p.supercell) \o "\")\n"
    \o "builder.supercell_matrix = orm.List(" \o Str(p.supercell) \o ")\n"
    \o "\n"
    \o "print(f\"Setting k-points mesh: " \o Str(p.kpoints) \o "\")\n"
    \o "builder.scf.kpoints = orm.KpointsData()\n"
    \o "builder.scf.kpoints.set_kpoints_mesh(" \o Str(p.kpoints) \o ")\n"
    \o "\n"
    \o "# Run calculation\n"
    \o "print(\"Submitting calculation...\")\n"
    \o "results, calc = run_get_node(builder)\n"
    \o "\n"
    \o "print(f\"Calculation submitted with PID: {calc.pk}\")\n"
    \o "print(\"=\" * 50)\n"
    \o "print(\"Monitor progress with:\")\n"
    \o "print(f\"  verdi process show {calc.pk}\")\n"
    \o "print(f\"  verdi process report {calc.pk}\")\n"
    \o "print(\"=\" * 50)\n"
    \o "\n"
    \o "# Save process ID for reference\n"
    \o "with open(\"last_calculation_pid.txt\", \"w\") as f:\n"
    \o "    f.write(str(calc.pk))\n"
    \o "\n"
    \o "print(f\"Process ID saved to: last_calculation_pid.txt\")\n"

\* Path.cwd() / script_name
ScriptPath(p, now) == "/work/" \o ScriptName(p, now)

GenerateText(p, now) ==
    "Generated script: " \o ScriptPath(p, now)
    \o "\n\nScript saved with parameters:\n"
    \o "- Material: " \o Str(p.material) \o "\n"
    \o "- Structure: " \o Str(p.structure_file) \o "\n"
    \o "- Protocol: " \o Str(p.protocol) \o "\n"
    \o "- K-points: " \o Str(p.kpoints) \o "\n"
    \o "- Supercell: " \o Str(p.supercell) \o "\n"
    \o "- PW code: " \o Str(p.pw_code) \o "\n"
    \o "- Phonopy code: " \o Str(p.phonopy_code)

\* Faulty variant: the script is written and left with the mode 0o644.
generate_phonon_script_no_chmod(bound, now) ==
    LET p == Effective(bound)
        path == ScriptPath(p, now)
        written == [f \in (DOMAIN files) \cup {path} |->
                      IF f = path
                      THEN [content |-> ScriptContent(p, now), mode |-> 420]
                      ELSE files[f]]
    IN Returned(<<GenerateText(p, now)>>, <<>>, written)

\* bound: the parameters as bound by the call; now: datetime.now().
generate_phonon_script(bound, now) ==
    LET p == Effective(bound)
        path == ScriptPath(p, now)
        written == [f \in (DOMAIN files) \cup {path} |->
                      IF f = path
                      THEN [content |-> ScriptContent(p, now), mode |-> ExecMode]
                      ELSE files[f]]
    IN Returned(<<GenerateText(p, now)>>, <<>>, written)

(***************************************************************************)
(* A run of a generated script: what its print statements write to stdout. *)
(***************************************************************************)
StartsWith(s, prefix) ==
    Len(s) >= Len(prefix) /\ SubSeq(s, 1, Len(prefix)) = prefix

EndsWith(s, suffix) ==
    Len(s) >= Len(suffix) /\ SubSeq(s, Len(s) - Len(suffix) + 1, Len(s)) = suffix

\* s * n
RECURSIVE Repeat(_, _)
Repeat(s, n) ==
    IF n = 0 THEN ""
    ELSE IF n % 2 = 0 THEN LET half == Repeat(s, n \div 2) IN half \o half
    ELSE s \o Repeat(s, n - 1)

\* The value of an f-string of the script: {calc.pk} is the only replacement
\* field left in the script, the others were filled in when it was generated.
RECURSIVE FormatPk(_, _)
FormatPk(s, pk) ==
    LET field == "{calc.pk}"
        at == {i \in 1..(Len(s) - Len(field) + 1) :
                 SubSeq(s, i, i + Len(field) - 1) = field}
    IN IF at = {} THEN s
       ELSE LET i == CHOOSE a \in at : \A b \in at : a <= b
            IN SubSeq(s, 1, i - 1) \o IntStr(pk)
               \o FormatPk(SubSeq(s, i + Len(field), Len(s)), pk)

IsPrint(line) == StartsWith(line, "print(") /\ EndsWith(line, ")")

\* What the statement print(<arg>) writes, newline included.
Printed(line, pk) ==
    LET arg == SubSeq(line, Len("print(") + 1, Len(line) - 1)
    IN (IF arg = "\"=\" * 50" THEN Repeat("=", 50)
        ELSE IF StartsWith(arg, "f\"") THEN FormatPk(SubSeq(arg, 3, Len(arg) - 1), pk)
        ELSE SubSeq(arg, 2, Len(arg) - 1))
       \o "\n"

\* The positions of the newlines of s, and the positions where its lines start.
Newlines(s) == {i \in 1..Len(s) : SubSeq(s, i, i) = "\n"}

LineStarts(s) == {1} \cup {i + 1 : i \in Newlines(s)}

\* The line of s that starts at position a; ends: the newlines of s.
LineAt(s, ends, a) ==
    LET after == {q \in ends \cup {Len(s) + 1} : q >= a}
    IN SubSeq(s, a, (CHOOSE q \in after : \A r \in after : q <= r) - 1)

\* The print statements of the lines that start at the positions starts, run
\* in order.
RECURSIVE PrintFrom(_, _, _, _)
PrintFrom(s, ends, starts, pk) ==
    LET prints == {a \in starts : IsPrint(LineAt(s, ends, a))}
    IN IF prints = {} THEN ""
       ELSE LET a == CHOOSE b \in prints : \A c \in prints : b <= c
            IN Printed(LineAt(s, ends, a), pk)
               \o PrintFrom(s, ends, {b \in prints : b > a}, pk)

\* The stdout of a run of the script that goes through: run_get_node returns
\* a node whose pk is pk, and only the script's print statements write.
ScriptStdout(content, pk) ==
    LET ends == Newlines(content)
        starts == {a \in LineStarts(content) :
                     /\ a + Len("print(") - 1 <= Len(content)
                     /\ SubSeq(content, a, a + Len("print(") - 1) = "print("}
    IN PrintFrom(content, ends, starts, pk)

(***************************************************************************)
(* execute_calculation                                                     *)
(***************************************************************************)
\* Faulty variant: the executor scans for the marker of the template file.
HasMarker_template(line) == Contains("PK:", line) \/ Contains("pk:", line)

HasMarker(line) == Contains("PID:", line) \/ Contains("pk:", line)

\* The loop over result.stdout.split('\n'): the digits of the first line that
\* holds a marker and a digit.
RECURSIVE ScanLines(_)
ScanLines(lines) ==
    IF Len(lines) = 0 THEN NoMatch
    ELSE LET line == Head(lines)
             match == ReSearchDigits(line)
         IN IF HasMarker(line) /\ match.found THEN match
            ELSE ScanLines(Tail(lines))

ExtractPid(stdout) == ScanLines(SplitLines(stdout))

ExecuteText(oc) ==
    IF oc.raises THEN "Execution failed: " \o oc.exc
    ELSE IF oc.returncode = 0
    THEN LET pid == ExtractPid(oc.stdout)
             response == "Calculation started successfully!\n" \o oc.stdout
         IN IF pid.found /\ pid.group # ""
            THEN response \o "\n\nProcess ID: " \o pid.group \o "\n"
                 \o "Monitor with: verdi process show " \o pid.group
            ELSE response
    ELSE "Error starting calculation:\n" \o oc.stderr

\* Faulty variant: the launch is not guarded and its exception reaches the
\* caller.
execute_calculation_unguarded(script_path, env) ==
    IF env[1].raises
    THEN Raised("FileNotFoundError",
                <<Run(<<"verdi", "run", Str(script_path)>>, env[1])>>, files)
    ELSE Returned(<<ExecuteText(env[1])>>,
                  <<Run(<<"verdi", "run", Str(script_path)>>, env[1])>>,
                  files)

execute_calculation(script_path, env) ==
    Returned(<<ExecuteText(env[1])>>,
             <<Run(<<"verdi", "run", Str(script_path)>>, env[1])>>,
             files)

(***************************************************************************)
(* check_calculation_status                                                *)
(***************************************************************************)
\* Faulty variant: "process_id is not None" in place of "process_id".
StatusArgv_is_not_None(process_id) ==
    IF process_id.t # "None"
    THEN <<"verdi", "process", "show", Str(process_id)>>
    ELSE <<"verdi", "process", "list", "-p", "5", "-a">>

StatusArgv(process_id) ==
    IF Truthy(process_id)
    THEN <<"verdi", "process", "show", Str(process_id)>>
    ELSE <<"verdi", "process", "list", "-p", "5", "-a">>

\* Faulty variant: stdout is relayed whatever the exit status.
StatusText_stdout_always(oc) ==
    IF oc.raises THEN "Error checking status: " \o oc.exc
    ELSE oc.stdout

StatusText(oc) ==
    IF oc.raises THEN "Error checking status: " \o oc.exc
    ELSE IF oc.returncode = 0 THEN oc.stdout ELSE oc.stderr

check_calculation_status(process_id, env) ==
    Returned(<<StatusText(env[1])>>, <<Run(StatusArgv(process_id), env[1])>>, files)

(***************************************************************************)
(* Resources                                                               *)
(***************************************************************************)
get_phonon_workflow_template ==
       "from aiida import load_profile\n"
    \o "from aiida.plugins import DbImporterFactory\n"
    \o "from ase import io\n"
    \o "from aiida import orm\n"
    \o "from aiida.plugins import WorkflowFactory\n"
    \o "from aiida.engine import run_get_node\n"
    \o "from aiida_vibroscopy.common.properties import PhononProperty\n"
    \o "\n"
    \o "load_profile()\n"
    \o "\n"
    \o "# Load structure\n"
    \o "structure = io.read('Si_mp-149_primitive.cif')\n"
    \o "\n"
    \o "# Setup workflow\n"
    \o "PhononWorkChain = WorkflowFactory(\"vibroscopy.phonons.phonon\")\n"
    \o "builder = PhononWorkChain.get_builder_from_protocol(\n"
    \o "    pw_code=orm.load_code('pw-7.3@thor'),\n"
    \o "    structure=orm.StructureData(ase=structure),\n"
    \o "    protocol=\"fast\",\n"
    \o "    phonopy_code=orm.load_code('phonopy@localhost'),\n"
    \o "    phonon_property=PhononProperty.BANDS\n"
    \o ")\n"
    \o "\n"
    \o "# Configure parameters\n"
    \o "builder.supercell_matrix = orm.List([1,1,1])\n"
    \o "builder.scf.kpoints = orm.KpointsData()\n"
    \o "builder.scf.kpoints.set_kpoints_mesh([3,3,3])\n"
    \o "\n"
    \o "# Run calculation\n"
    \o "results, calc = run_get_node(builder)\n"

get_code_configs ==
       "# pw-7.3.yaml\n"
    \o "label: \"pw-7.3\"\n"
    \o "computer: \"localhost\"\n"
    \o "description: \"Quantum ESPRESSO pw.x v7.3\"\n"
    \o "filepath_executable: \"/usr/local/bin/pw.x\"\n"
    \o "default_calc_job_plugin: \"quantumespresso.pw\"\n"
    \o "prepend_text: |\n"
    \o "  export OMP_NUM_THREADS=1\n"
    \o "\n"
    \o "---\n"
    \o "\n"
    \o "# phonopy.yaml\n"
    \o "label: \"phonopy\"\n"
    \o "computer: \"localhost\"\n"
    \o "description: \"Phonopy for phonon calculations\"\n"
    \o "filepath_executable: \"/usr/local/bin/phonopy\"\n"
    \o "default_calc_job_plugin: \"phonopy.phonopy\"\n"
    \o "prepend_text: |\n"
    \o "  export OMP_NUM_THREADS=1\n"

\* The guide's backquotes are written as apostrophes.
get_workflow_guide ==
       "# AiiDA Phonon Calculation Workflow Guide\n"
    \o "\n"
    \o "## Prerequisites\n"
    \o "1. AiiDA installation with profile configured\n"
    \o "2. Quantum ESPRESSO (pw.x) installed\n"
    \o "3. Phonopy installed\n"
    \o "4. aiida-vibroscopy plugin installed\n"
    \o "5. Pseudopotentials (PBEsol recommended)\n"
    \o "\n"
    \o "## Step-by-Step Process\n"
    \o "\n"
    \o "### 1. Setup Check\n"
    \o "- Verify codes: 'verdi code list'\n"
    \o "- Check pseudopotentials: 'aiida-pseudo list'\n"
    \o "- Ensure computer is configured: 'verdi computer list'\n"
    \o "\n"
    \o "### 2. Prepare Structure\n"
    \o "- Obtain CIF or POSCAR file for your material\n"
    \o "- Can download from Materials Project or other databases\n"
    \o "- Ensure structure is properly formatted\n"
    \o "\n"
    \o "### 3. Configure Calculation Parameters\n"
    \o "- **Protocol**: fast/moderate/precise\n"
    \o "- **K-points mesh**: Density for SCF calculation\n"
    \o "- **Supercell size**: For phonon displacement calculations\n"
    \o "- **Codes**: Select appropriate QE and Phonopy codes\n"
    \o "\n"
    \o "### 4. Run Calculation\n"
    \o "- Execute the generated Python script\n"
    \o "- Monitor with verdi process commands\n"
    \o "- Check for convergence and errors\n"
    \o "\n"
    \o "### 5. Retrieve Results\n"
    \o "- Export band structure data\n"
    \o "- Visualize phonon dispersion\n"
    \o "- Calculate phonon DOS if needed\n"
    \o "\n"
    \o "## Common Issues\n"
    \o "- Memory errors: Reduce supercell size or k-points\n"
    \o "- Convergence issues: Adjust SCF parameters\n"
    \o "- Missing features: Check aiida-vibroscopy version\n"

\* The uris handle_list_resources returns, in order.
handle_list_resources ==
    <<"aiida://examples/phonon_workflow", "aiida://config/codes",
      "aiida://docs/workflow_guide">>

\* Faulty variant: the documents are read from the templates directory.
handle_read_resource_from_disk(uri, templates) ==
    IF uri \in {"aiida://examples/phonon_workflow", "aiida://config/codes",
                "aiida://docs/workflow_guide"}
    THEN IF ~templates THEN Raised("FileNotFoundError", <<>>, files)
         ELSE IF uri = "aiida://examples/phonon_workflow"
         THEN Returned(<<get_phonon_workflow_template>>, <<>>, files)
         ELSE IF uri = "aiida://config/codes"
         THEN Returned(<<get_code_configs>>, <<>>, files)
         ELSE Returned(<<get_workflow_guide>>, <<>>, files)
    ELSE Raised("ValueError", <<>>, files)

\* templates: whether the files of the templates directory are on disk; the
\* documents are literals of the server and no file is read.
handle_read_resource(uri, templates) ==
    IF uri = "aiida://examples/phonon_workflow"
    THEN Returned(<<get_phonon_workflow_template>>, <<>>, files)
    ELSE IF uri = "aiida://config/codes"
    THEN Returned(<<get_code_configs>>, <<>>, files)
    ELSE IF uri = "aiida://docs/workflow_guide"
    THEN Returned(<<get_workflow_guide>>, <<>>, files)
    ELSE Raised("ValueError", <<>>, files)

\* The tool names handle_list_tools returns, in order.
handle_list_tools ==
    <<"check_prerequisites", "install_code", "install_pseudopotentials",
      "generate_phonon_script", "execute_calculation", "check_calculation_status">>

(***************************************************************************)
(* handle_call_tool                                                        *)
(***************************************************************************)
\* arguments.get(key, default)
Get(arguments, key, default) ==
    IF key \in DOMAIN arguments THEN arguments[key] ELSE default

\* An operation was entered and left r behind.
Entered(op, r) == [ran |-> <<op>>, out |-> r]

\* The handler raised before it entered an operation.
NotEntered(exc) == [ran |-> <<>>, out |-> Raised(exc, <<>>, files)]

\* env: the outcomes of the external commands, in launch order;
\* now: what datetime.now() returns during the request.
handle_call_tool(name, arguments, env, now) ==
    IF name = "check_prerequisites"
    THEN Entered("check_prerequisites", check_prerequisites(env))
    ELSE IF name = "install_code"
    THEN IF "code_type" \notin DOMAIN arguments
         THEN NotEntered("KeyError")
         ELSE Entered("install_code", install_code(arguments["code_type"], env))
    ELSE IF name = "install_pseudopotentials"
    THEN Entered("install_pseudopotentials",
                 install_pseudopotentials(
                     Get(arguments, "library", PyStr("sssp")),
                     Get(arguments, "functional", PyStr("PBEsol")),
                     Get(arguments, "version", PyStr("1.3")),
                     env))
    ELSE IF name = "generate_phonon_script"
    THEN IF ~Binds(arguments)
         THEN NotEntered("TypeError")
         ELSE Entered("generate_phonon_script",
                      generate_phonon_script(Bound(arguments), now))
    ELSE IF name = "execute_calculation"
    THEN IF "script_path" \notin DOMAIN arguments
         THEN NotEntered("KeyError")
         ELSE Entered("execute_calculation",
                      execute_calculation(arguments["script_path"], env))
    ELSE IF name = "check_calculation_status"
    THEN Entered("check_calculation_status",
                 check_calculation_status(Get(arguments, "process_id", PyNone), env))
    ELSE NotEntered("ValueError")

(***************************************************************************)
(* The requests and the external outcomes the model draws from.            *)
(***************************************************************************)
NoArgs == [k \in {} |-> PyNone]

ToolNames ==
    {"check_prerequisites", "install_code", "install_pseudopotentials",
     "generate_phonon_script", "execute_calculation", "check_calculation_status"}

UnknownNames == {"run_everything", ""}

CodeTypes == {"pw", "phonopy", "", "cp2k"}

InstallCodeArgs ==
    {NoArgs, [code_type |-> PyStr("pw"), force |-> PyStr("yes")]}
    \cup {[code_type |-> PyStr(c)] : c \in CodeTypes}

InstallPseudoArgs ==
    {NoArgs, [library |-> PyStr("dojo")],
     [functional |-> PyStr("PBE"), version |-> PyStr("1.2")]}

Time(s) ==
    [year |-> 2026, month |-> 11, day |-> 5, hour |-> 10, minute |-> 15, second |-> s]

Seconds == {0, 1}

Materials == {"Si", "Ge"}

KpointsChoices == {PyList(<<4, 4, 4>>), PyList(<<>>)}

GenerateArgs ==
    LET base == {[material |-> PyStr(m), structure_file |-> PyStr(m \o ".cif")] :
                   m \in Materials}
        withProtocol == {[material |-> b.material, structure_file |-> b.structure_file,
                          protocol |-> PyStr("fast")] : b \in base}
        withKpoints == {[material |-> b.material, structure_file |-> b.structure_file,
                         protocol |-> PyStr("fast"), kpoints |-> k] :
                          b \in base, k \in KpointsChoices}
    IN base \cup withProtocol \cup withKpoints
       \cup {[structure_file |-> PyStr("Si.cif")],
             [material |-> PyStr("Si"), structure_file |-> PyStr("Si.cif"),
              verbose |-> PyStr("yes")],
             [material |-> PyStr("Si"), structure_file |-> PyStr("Si.cif"),
              protocol |-> PyStr("precise"), kpoints |-> PyNone,
              supercell |-> PyList(<<1, 1, 1>>), pw_code |-> PyStr("pw-7.3@thor"),
              phonopy_code |-> PyStr("phonopy@thor")]}

\* The paths generate_phonon_script can return, as script_path.
ExecuteArgs ==
    {NoArgs}
    \cup {[script_path |-> PyStr(ScriptPath([material |-> PyStr(m)], Time(s)))] :
            m \in Materials, s \in Seconds}

StatusArgs ==
    {NoArgs, [process_id |-> PyNone], [process_id |-> PyStr("")],
     [process_id |-> PyStr("42")]}

ArgumentsOf(name) ==
    CASE name = "install_code" -> InstallCodeArgs
      [] name = "install_pseudopotentials" -> InstallPseudoArgs
      [] name = "generate_phonon_script" -> GenerateArgs
      [] name = "execute_calculation" -> ExecuteArgs
      [] name = "check_calculation_status" -> StatusArgs
      [] OTHER -> {NoArgs}

NoVerdi == LaunchError("[Errno 2] No such file or directory: 'verdi'")

NoAiidaPseudo == LaunchError("[Errno 2] No such file or directory: 'aiida-pseudo'")

CodeListOutcomes ==
    {NoVerdi,
     Completed(0, "pw-7.3@localhost\nphonopy@localhost\n", ""),
     Completed(0, "phonopy@localhost\n", ""),
     Completed(1, "phonopy@localhost\n", "Warning: daemon is not running\n"),
     Completed(0, "pw@localhost\n", ""),
     Completed(1, "", "Critical: cannot load code pw-7.3@localhost\n")}

PseudoListOutcomes ==
    {NoAiidaPseudo,
     Completed(0, "SSSP/1.3/PBEsol/efficiency\n", ""),
     Completed(0, "SSSP/1.3/PBE/efficiency\n", "")}

InstallOutcomes ==
    {NoVerdi,
     Completed(0, "Success: created\n", "Warning: deprecated option\n"),
     Completed(1, "Usage: verdi code create\n", "Error: invalid value\n")}

StdoutLines ==
    {"Calculation submitted with PK: 1234",
     "Calculation submitted with PID: 1234",
     "pk: 7",
     "3 jobs queued, PID: 12",
     "12 jobs queued, PID: unknown",
     "PID: unknown",
     "  verdi process show 1234",
     "Starting phonon calculation for Si"}

ExecuteStdouts ==
    {""} \cup {l \o "\n" : l \in StdoutLines}
    \cup {l1 \o "\n" \o l2 \o "\n" : l1 \in StdoutLines, l2 \in StdoutLines}

ExecuteOutcomes ==
    {NoVerdi, Completed(1, "Starting\nPID: 5\n", "Traceback: structure file not found\n")}
    \cup {Completed(0, s, "") : s \in ExecuteStdouts}

StatusOutcomes ==
    {NoVerdi,
     Completed(0, "PK 42 PhononWorkChain Finished [0]\n", "Warning: daemon is not running\n"),
     Completed(1, "Usage: verdi process show\n", "Critical: no process found\n"),
     Completed(1, "", "")}

\* The outcomes of the external commands a request may launch, in launch order.
EnvOf(name) ==
    CASE name = "check_prerequisites" ->
           {<<a, b>> : a \in CodeListOutcomes, b \in PseudoListOutcomes}
      [] name = "install_code" -> {<<a>> : a \in InstallOutcomes}
      [] name = "install_pseudopotentials" -> {<<a>> : a \in InstallOutcomes}
      [] name = "execute_calculation" -> {<<a>> : a \in ExecuteOutcomes}
      [] name = "check_calculation_status" -> {<<a>> : a \in StatusOutcomes}
      [] OTHER -> {<<>>}


\* The clock readings of requests that read the clock; the others do not.
\* The two readings of one generate request (file name, script header) are
\* taken within the same second.
Times == {Time(s) : s \in Seconds}

TimesOf(name) == IF name = "generate_phonon_script" THEN Times ELSE {Time(0)}

\* The pk of the node a run of a generated script gets from run_get_node.
Pks == {7, 1234}

\* A run of a generated script that goes through: exit status 0, the script's
\* prints on stdout, and calc_pk, the pk of the node the run created in the
\* AiiDA database.  The server sees the first four fields only.
ScriptRun(content, pk) ==
    [raises |-> FALSE, returncode |-> 0, stdout |-> ScriptStdout(content, pk),
     stderr |-> "", exc |-> "", calc_pk |-> pk]

\* The runs of the script at script_path that go through, when
\* generate_phonon_script wrote it.
ScriptRuns(arguments) ==
    IF /\ "script_path" \in DOMAIN arguments
       /\ arguments["script_path"].t = "str"
       /\ arguments["script_path"].v \in DOMAIN files
    THEN {<<ScriptRun(files[arguments["script_path"].v].content, pk)>> : pk \in Pks}
    ELSE {}

\* The outcomes the external commands of this request may have.
\* execute_calculation hands script_path on and does not read it: the
\* outcomes that are not those of a generated script are drawn with one path,
\* the other paths have the launch error and the runs of their script.
EnvFor(name, arguments) ==
    IF name = "execute_calculation"
    THEN (IF arguments = [script_path |-> PyStr(ScriptPath([material |-> PyStr("Si")],
                                                           Time(0)))]
          THEN EnvOf(name) ELSE {<<NoVerdi>>})
         \cup ScriptRuns(arguments)
    ELSE EnvOf(name)

Uris == {"aiida://examples/phonon_workflow", "aiida://config/codes",
         "aiida://docs/workflow_guide", "aiida://docs/unknown", ""}

(***************************************************************************)
(* The state machine.                                                      *)
(***************************************************************************)
NoCheck == [set |-> FALSE, launched |-> <<>>, result |-> <<>>]

NoRequest ==
    [kind |-> "none", name |-> "", arguments |-> NoArgs, now |-> Time(0),
     templates |-> TRUE]

Init ==
    /\ request = NoRequest
    /\ outcome = "none"
    /\ error = ""
    /\ result = <<>>
    /\ ran = <<>>
    /\ launched = <<>>
    /\ files = [f \in {} |-> 0]
    /\ firstCheck = NoCheck

\* The state a handler leaves: h.ran and h.out.
Leaves(h) ==
    /\ outcome' = h.out.outcome
    /\ error' = h.out.error
    /\ result' = h.out.result
    /\ ran' = h.ran
    /\ launched' = h.out.launched
    /\ files' = h.out.files

HandleCallTool ==
    /\ outcome = "none"
    /\ \E name \in ToolNames \cup UnknownNames :
       \E arguments \in ArgumentsOf(name), now \in TimesOf(name) :
       \E env \in EnvFor(name, arguments) :
        LET h == handle_call_tool(name, arguments, env, now)
        IN \* the bound of the model: no more than MaxFiles scripts are kept
           /\ Cardinality(DOMAIN h.out.files) <= MaxFiles
           /\ request' = [kind |-> "call_tool", name |-> name, arguments |-> arguments,
                          now |-> now, templates |-> TRUE]
           /\ Leaves(h)
           /\ firstCheck' =
                IF h.ran = <<"check_prerequisites">> /\ ~firstCheck.set
                THEN [set |-> TRUE, launched |-> h.out.launched, result |-> h.out.result]
                ELSE firstCheck

\* templates: whether the files of the templates directory are on disk.
HandleReadResource ==
    \E uri \in Uris, templates \in BOOLEAN :
        /\ outcome = "none"
        /\ request' = [kind |-> "read_resource", name |-> uri, arguments |-> NoArgs,
                       now |-> Time(0), templates |-> templates]
        /\ Leaves([ran |-> <<>>, out |-> handle_read_resource(uri, templates)])
        /\ UNCHANGED firstCheck

HandleListResources ==
    /\ outcome = "none"
    /\ request' = [kind |-> "list_resources", name |-> "", arguments |-> NoArgs,
                   now |-> Time(0), templates |-> TRUE]
    /\ Leaves([ran |-> <<>>, out |-> Returned(handle_list_resources, <<>>, files)])
    /\ UNCHANGED firstCheck

HandleListTools ==
    /\ outcome = "none"
    /\ request' = [kind |-> "list_tools", name |-> "", arguments |-> NoArgs,
                   now |-> Time(0), templates |-> TRUE]
    /\ Leaves([ran |-> <<>>, out |-> Returned(handle_list_tools, <<>>, files)])
    /\ UNCHANGED firstCheck

\* The server's loop: the outcome goes to the caller and the server waits for
\* the next request.  Nothing of the request is kept.
Respond ==
    /\ outcome # "none"
    /\ request' = NoRequest
    /\ outcome' = "none"
    /\ error' = ""
    /\ result' = <<>>
    /\ ran' = <<>>
    /\ launched' = <<>>
    /\ UNCHANGED <<files, firstCheck>>

Next ==
    \/ HandleCallTool
    \/ HandleReadResource
    \/ HandleListResources
    \/ HandleListTools
    \/ Respond

Spec == Init /\ [][Next]_vars

(***************************************************************************)
(* Properties.                                                             *)
(***************************************************************************)
\* The operations that launch external processes.
ExternalOps ==
    {"check_prerequisites", "install_code", "install_pseudopotentials",
     "execute_calculation", "check_calculation_status"}

\* A subprocess.run call that failed: it raised at launch or exited non-zero.
Failed(run) == run.oc.raises \/ run.oc.returncode # 0

Range(s) == {s[i] : i \in DOMAIN s}

\* C1: every tool call with one of the six tool names runs exactly one
\* operation, the one of that name, and a call with any other name raises
\* ValueError and runs none.
C1_DispatchRunsTheNamedOperation ==
    request.kind = "call_tool" =>
        IF request.name \in ToolNames
        THEN ran = <<request.name>>
        ELSE ran = <<>> /\ outcome = "raised" /\ error = "ValueError"

\* C2: a tool call with one of the six tool names returns text and does not
\* raise, whatever its argument mapping (a required key missing, an extra key).
C2_RecognizedNamesNeverRaise ==
    (request.kind = "call_tool" /\ request.name \in ToolNames) =>
        outcome = "returned"

\* C3: an operation whose external command failed (non-zero exit, or an
\* exception at launch) does not raise: it returns at least one text segment,
\* and the segments of every operation but check_calculation_status (which
\* relays stderr as it is) are non-empty texts.
C3_ExternalFailureIsText ==
    (ran # <<>> /\ ran[1] \in ExternalOps /\ \E i \in DOMAIN launched : Failed(launched[i])) =>
        /\ outcome = "returned"
        /\ error = ""
        /\ Len(result) >= 1
        /\ ran[1] # "check_calculation_status" =>
              \A i \in DOMAIN result : Len(result[i]) > 0

\* C3 witness: execute_calculation returned text although the launch raised.
C3_Witness ==
    /\ ran = <<"execute_calculation">>
    /\ Len(launched) = 1
    /\ launched[1].oc.raises
    /\ outcome = "returned"
    /\ Len(result) = 1

\* The command line of "verdi code create" for a configuration file.
CreateArgv(config) ==
    <<"verdi", "code", "create", "core.code.installed", "--config", config,
      "--no-use-double-quotes">>

\* C4: install_code launches the install command with pw-7.3.yaml for code
\* type "pw" and with phonopy.yaml for "phonopy"; for any other string it
\* launches nothing and returns the text "Unknown code type: <string>".
C4_InstallCodeConfig ==
    ran = <<"install_code">> =>
        LET code_type == request.arguments["code_type"].v
        IN IF code_type = "pw"
           THEN Len(launched) = 1
                /\ launched[1].argv = CreateArgv("configs/pw-7.3.yaml")
           ELSE IF code_type = "phonopy"
           THEN Len(launched) = 1
                /\ launched[1].argv = CreateArgv("configs/phonopy.yaml")
           ELSE /\ launched = <<>>
                /\ outcome = "returned"
                /\ result = <<"Unknown code type: " \o code_type>>

\* C4 witness: the empty string as code type was answered without a launch.
C4_Witness ==
    /\ ran = <<"install_code">>
    /\ request.arguments["code_type"].v = ""
    /\ launched = <<>>
    /\ result = <<"Unknown code type: ">>

\* A line "Calculation submitted with PK: <digits>".
IsSubmittedPK(line) ==
    LET prefix == "Calculation submitted with PK: "
    IN /\ Len(line) > Len(prefix)
       /\ SubSeq(line, 1, Len(prefix)) = prefix
       /\ \A i \in (Len(prefix) + 1)..Len(line) : IsDigit(line, i)

SubmittedPK(line) == SubSeq(line, Len("Calculation submitted with PK: ") + 1, Len(line))

\* C5: when the run command exits with status 0 and its stdout holds a line
\* "Calculation submitted with PK: <digits>", the result text holds these
\* digits as the process identifier and the follow-up command for them.
C5_SubmittedPKIsReported ==
    (ran = <<"execute_calculation">> /\ Len(launched) = 1
     /\ ~launched[1].oc.raises /\ launched[1].oc.returncode = 0) =>
        \A line \in Range(SplitLines(launched[1].oc.stdout)) :
            IsSubmittedPK(line) =>
                /\ Contains("Process ID: " \o SubmittedPK(line) \o "\n", result[1])
                /\ Contains("Monitor with: verdi process show " \o SubmittedPK(line),
                            result[1])

ListArgv == <<"verdi", "process", "list", "-p", "5", "-a">>

ShowArgv(id) == <<"verdi", "process", "show", id>>

\* C6 as claimed: the show variant whenever the request carries a process_id
\* string (the empty string included), the list variant exactly when it
\* carries none (a null process_id counted as none).
C6_ShowWheneverPresent ==
    ran = <<"check_calculation_status">> =>
        /\ Len(launched) = 1
        /\ LET present == "process_id" \in DOMAIN request.arguments
               id == request.arguments["process_id"]
           IN IF present /\ id.t = "str"
              THEN launched[1].argv = ShowArgv(id.v)
              ELSE launched[1].argv = ListArgv

\* C6 as amended: exactly one command is launched; it is the show variant
\* with the identifier when the request carries a non-empty process_id string,
\* and the list variant (-p 5 -a) when process_id is absent, null or empty.
C6_ShowWhenNonEmpty ==
    ran = <<"check_calculation_status">> =>
        /\ Len(launched) = 1
        /\ LET present == "process_id" \in DOMAIN request.arguments
               id == request.arguments["process_id"]
           IN IF present /\ id.t = "str" /\ id.v # ""
              THEN launched[1].argv = ShowArgv(id.v)
              ELSE launched[1].argv = ListArgv

\* C6 witness: a request with the empty string as process_id got the list.
C6_Witness ==
    /\ ran = <<"check_calculation_status">>
    /\ "process_id" \in DOMAIN request.arguments
    /\ request.arguments["process_id"] = PyStr("")
    /\ launched[1].argv = ListArgv

\* C7: the resources listed are the three fixed identifiers; reading one of
\* them returns a non-empty text, also with the template files gone from the
\* disk; reading any other identifier raises ValueError.
C7_ResourcesReadable ==
    /\ request.kind = "list_resources" =>
          result = <<"aiida://examples/phonon_workflow", "aiida://config/codes",
                     "aiida://docs/workflow_guide">>
    /\ request.kind = "read_resource" =>
          IF request.name \in Range(handle_list_resources)
          THEN outcome = "returned" /\ Len(result) = 1 /\ Len(result[1]) > 0
          ELSE outcome = "raised" /\ error = "ValueError"

\* C7 witness: a document was read while the template files were missing.
C7_Witness ==
    /\ request.kind = "read_resource"
    /\ request.name = "aiida://examples/phonon_workflow"
    /\ ~request.templates
    /\ outcome = "returned"
    /\ Len(result[1]) > 0

\* YYYYMMDD_HHMMSS
IsStamp(s) ==
    /\ Len(s) = 15
    /\ SubSeq(s, 9, 9) = "_"
    /\ \A i \in (1..8) \cup (10..15) : IsDigit(s, i)

\* The owner's execute bit of a file mode.
OwnerExecutable(mode) == (mode \div 64) % 2 = 1

\* C8: generate_phonon_script called with material, structure_file and
\* protocol, without kpoints and supercell, writes
\* phonon_calculation_<material>_<YYYYMMDD_HHMMSS>.py into the working
\* directory; the file holds the three values and the default triples and is
\* executable; the returned text holds the path and the seven values.
C8_GenerateWritesScript ==
    (ran = <<"generate_phonon_script">>
     /\ DOMAIN request.arguments = {"material", "structure_file", "protocol"}) =>
        LET a == request.arguments
            stamp == strftime_stamp(request.now)
            path == "/work/phonon_calculation_" \o a.material.v \o "_" \o stamp \o ".py"
        IN /\ IsStamp(stamp)
           /\ outcome = "returned"
           /\ path \in DOMAIN files
           /\ OwnerExecutable(files[path].mode)
           /\ Contains(a.material.v, files[path].content)
           /\ Contains("io.read('" \o a.structure_file.v \o "')", files[path].content)
           /\ Contains("protocol=\"" \o a.protocol.v \o "\"", files[path].content)
           /\ Contains("set_kpoints_mesh([3, 3, 3])", files[path].content)
           /\ Contains("orm.List([2, 2, 2])", files[path].content)
           /\ Len(result) = 1
           /\ Contains("Generated script: " \o path \o "\n", result[1])
           /\ Contains("- Material: " \o a.material.v \o "\n", result[1])
           /\ Contains("- Structure: " \o a.structure_file.v \o "\n", result[1])
           /\ Contains("- Protocol: " \o a.protocol.v \o "\n", result[1])
           /\ Contains("- K-points: [3, 3, 3]\n", result[1])
           /\ Contains("- Supercell: [2, 2, 2]\n", result[1])
           /\ Contains("- PW code: pw-7.3@localhost\n", result[1])
           /\ Contains("- Phonopy code: phonopy@localhost", result[1])

\* C8 witness: the script for Si, Si.cif and protocol fast was written.
C8_Witness ==
    /\ ran = <<"generate_phonon_script">>
    /\ request.arguments = [material |-> PyStr("Si"), structure_file |-> PyStr("Si.cif"),
                            protocol |-> PyStr("fast")]
    /\ request.now = Time(0)
    /\ "/work/phonon_calculation_Si_20261105_101500.py" \in DOMAIN files

\* What check_prerequisites reads of a listing command: its stdout, or the
\* exception of its launch.
Output(run) ==
    IF run.oc.raises THEN [raises |-> TRUE, text |-> run.oc.exc]
    ELSE [raises |-> FALSE, text |-> run.oc.stdout]

SameOutputs(runs1, runs2) ==
    /\ Len(runs1) = Len(runs2)
    /\ \A i \in DOMAIN runs1 : Output(runs1[i]) = Output(runs2[i])

\* C9: a check_prerequisites call returns the text of the first such call
\* whenever the two listing commands gave the same output as then, whatever
\* requests were handled in between.
C9_CheckPrerequisitesIdempotent ==
    (ran = <<"check_prerequisites">> /\ firstCheck.set
     /\ SameOutputs(launched, firstCheck.launched)) =>
        result = firstCheck.result

\* C9 witness: a later check_prerequisites call (the exit status of its first
\* command differs from the first call's) with the same outputs, after a script
\* was generated.
C9_Witness ==
    /\ ran = <<"check_prerequisites">>
    /\ firstCheck.set
    /\ SameOutputs(launched, firstCheck.launched)
    /\ launched # firstCheck.launched
    /\ DOMAIN files # {}

\* The number of external commands an operation launches.
Launches(op) ==
    CASE op = "check_prerequisites" -> 2
      [] op = "install_code" ->
           IF request.arguments["code_type"].v \in {"pw", "phonopy"} THEN 1 ELSE 0
      [] op = "install_pseudopotentials" -> 1
      [] op = "generate_phonon_script" -> 0
      [] op = "execute_calculation" -> 1
      [] op = "check_calculation_status" -> 1

\* C10: every external command is launched once per request and never again,
\* whatever came of it: check_prerequisites launches its two listing commands,
\* install_code with a known code type, install_pseudopotentials,
\* execute_calculation and check_calculation_status launch one command each,
\* generate_phonon_script and install_code with an unknown code type none.
C10_LaunchedOnce ==
    /\ ran # <<>> => Len(launched) = Launches(ran[1])
    /\ ran = <<>> => launched = <<>>
    /\ ran = <<"check_prerequisites">> =>
          /\ launched[1].argv = <<"verdi", "code", "list">>
          /\ launched[2].argv = <<"aiida-pseudo", "list">>

\* C10 witness: check_prerequisites launched both commands, each once, though
\* both launches raised.
C10_Witness ==
    /\ ran = <<"check_prerequisites">>
    /\ Len(launched) = 2
    /\ launched[1].oc.raises
    /\ launched[2].oc.raises

\* The operations that report by the exit status of one command.
StatusReporters == {"install_code", "install_pseudopotentials", "check_calculation_status"}

\* The text before the command's stdout in a success report.
SuccessPrefix(op) ==
    CASE op = "install_code" ->
           "Successfully installed " \o request.arguments["code_type"].v \o " code:\n"
      [] op = "install_pseudopotentials" ->
           "Successfully installed "
           \o (IF "functional" \in DOMAIN request.arguments
               THEN request.arguments["functional"].v ELSE "PBEsol")
           \o " pseudopotentials:\n"
      [] op = "check_calculation_status" -> ""

\* The text before the command's stderr in a failure report.
FailurePrefix(op) ==
    CASE op = "install_code" ->
           "Error installing " \o request.arguments["code_type"].v \o ":\n"
      [] op = "install_pseudopotentials" -> "Error installing pseudopotentials:\n"
      [] op = "check_calculation_status" -> ""

\* C11: for install_code with a known code type, install_pseudopotentials and
\* check_calculation_status the exit status of the command alone selects the
\* text: status 0 gives the success text ending in the command's stdout and
\* nothing of its stderr, any other status the failure text ending in its
\* stderr and nothing of its stdout.
C11_TextByExitStatus ==
    (ran # <<>> /\ ran[1] \in StatusReporters /\ Len(launched) = 1
     /\ ~launched[1].oc.raises) =>
        LET oc == launched[1].oc
        IN IF oc.returncode = 0
           THEN /\ result = <<SuccessPrefix(ran[1]) \o oc.stdout>>
                /\ oc.stderr # "" => ~Contains(oc.stderr, result[1])
           ELSE /\ result = <<FailurePrefix(ran[1]) \o oc.stderr>>
                /\ oc.stdout # "" => ~Contains(oc.stdout, result[1])

\* C11 witness: check_calculation_status relayed the stderr of a command that
\* exited non-zero and had written to stdout as well.
C11_Witness ==
    /\ ran = <<"check_calculation_status">>
    /\ Len(launched) = 1
    /\ ~launched[1].oc.raises
    /\ launched[1].oc.returncode # 0
    /\ launched[1].oc.stdout # ""
    /\ result = <<launched[1].oc.stderr>>

\* The marker tokens of a submission line.
MarkerTokens == {"PID:", "pk:"}

\* The positions of a line at which a marker token ends.
MarkerEnds(line) ==
    {e \in 1..Len(line) :
        \E mk \in MarkerTokens :
            e >= Len(mk) /\ SubSeq(line, e - Len(mk) + 1, e) = mk}

\* The first run of digits after the first marker token of a line.
DigitsAfterMarker(line) ==
    IF MarkerEnds(line) = {} THEN NoMatch
    ELSE LET e == CHOOSE p \in MarkerEnds(line) : \A q \in MarkerEnds(line) : p <= q
         IN ReSearchDigits(SubSeq(line, e + 1, Len(line)))

\* The digits after the marker in the first line that has a marker followed by
\* digits.
RECURSIVE FirstMarkedNumber(_)
FirstMarkedNumber(lines) ==
    IF Len(lines) = 0 THEN NoMatch
    ELSE IF DigitsAfterMarker(Head(lines)).found THEN DigitsAfterMarker(Head(lines))
    ELSE FirstMarkedNumber(Tail(lines))

\* C12: after a run that exited with status 0 the process identifier reported
\* is the digit string after the marker in the first stdout line that has a
\* marker followed by digits, never digits standing before the marker; with no
\* such line the result holds neither an identifier nor a follow-up command.
C12_IdentifierFollowsMarker ==
    (ran = <<"execute_calculation">> /\ Len(launched) = 1
     /\ ~launched[1].oc.raises /\ launched[1].oc.returncode = 0) =>
        LET stdout == launched[1].oc.stdout
            id == FirstMarkedNumber(SplitLines(stdout))
            response == "Calculation started successfully!\n" \o stdout
        IN IF id.found
           THEN result = <<response \o "\n\nProcess ID: " \o id.group \o "\n"
                           \o "Monitor with: verdi process show " \o id.group>>
           ELSE result = <<response>>

\* "Installed" when the marker occurs in the text, "Not found" otherwise.
Reported(marker, text) == IF Contains(marker, text) THEN "Installed" ELSE "Not found"

\* C13: check_prerequisites never raises and returns exactly two segments,
\* the code status first and the pseudopotential status second.  A launch error
\* of a listing command becomes the error text of its own segment and the
\* other command is still run.  Quantum ESPRESSO, Phonopy and PBEsol are
\* reported "Installed" exactly when "pw-", "phonopy" and "PBEsol" occur in
\* the standard output of the item's listing command, "Not found" otherwise.
C13_TwoStatusSegments ==
    ran = <<"check_prerequisites">> =>
        /\ outcome = "returned"
        /\ Len(result) = 2
        /\ Len(launched) = 2
        /\ launched[1].argv = <<"verdi", "code", "list">>
        /\ launched[2].argv = <<"aiida-pseudo", "list">>
        /\ LET oc == launched[1].oc
           IN IF oc.raises
              THEN result[1] = "Error checking codes: " \o oc.exc
              ELSE result[1] =
                     "Code Status:\n"
                     \o "[v] Quantum ESPRESSO: " \o Reported("pw-", oc.stdout) \o "\n"
                     \o "[v] Phonopy: " \o Reported("phonopy", oc.stdout) \o "\n"
        /\ LET oc == launched[2].oc
           IN IF oc.raises
              THEN result[2] = "Error checking pseudopotentials: " \o oc.exc
              ELSE result[2] =
                     "\nPseudopotential Status:\n"
                     \o "[v] PBEsol: " \o Reported("PBEsol", oc.stdout) \o "\n"

\* C13 witness: the launch of the code listing raised, and the
\* pseudopotential check still ran and found PBEsol.
C13_Witness ==
    /\ ran = <<"check_prerequisites">>
    /\ Len(launched) = 2
    /\ launched[1].oc.raises
    /\ ~launched[2].oc.raises
    /\ Len(result) = 2
    /\ Contains("Error checking codes: ", result[1])
    /\ Contains("PBEsol: Installed", result[2])

\* The script_path of the request, when it names a file that
\* generate_phonon_script wrote.
GeneratedScript ==
    IF /\ "script_path" \in DOMAIN request.arguments
       /\ request.arguments["script_path"].t = "str"
       /\ request.arguments["script_path"].v \in DOMAIN files
    THEN {request.arguments["script_path"].v}
    ELSE {}

\* C14: when execute_calculation is given the path of a script that
\* generate_phonon_script wrote, and the run is a run of that script that
\* exits with status 0 after submitting a calculation with identifier N (its
\* stdout is what the script prints for N), the result reports process
\* identifier N and the follow-up command for N.
C14_GeneratedScriptIsRecognized ==
    (ran = <<"execute_calculation">> /\ Len(launched) = 1
     /\ "calc_pk" \in DOMAIN launched[1].oc) =>
        LET oc == launched[1].oc
        IN /\ GeneratedScript # {}
           /\ \A path \in GeneratedScript :
                /\ launched[1].argv = <<"verdi", "run", path>>
                /\ oc.stdout = ScriptStdout(files[path].content, oc.calc_pk)
           /\ Contains("Calculation submitted with PID: " \o IntStr(oc.calc_pk) \o "\n",
                       oc.stdout)
           /\ outcome = "returned"
           /\ result = <<"Calculation started successfully!\n" \o oc.stdout
                         \o "\n\nProcess ID: " \o IntStr(oc.calc_pk) \o "\n"
                         \o "Monitor with: verdi process show " \o IntStr(oc.calc_pk)>>

\* C14 witness: a generated script was executed, its run printed the
\* submission line for identifier 1234, and that identifier is reported.
C14_Witness ==
    /\ ran = <<"execute_calculation">>
    /\ Len(launched) = 1
    /\ "calc_pk" \in DOMAIN launched[1].oc
    /\ launched[1].oc.calc_pk = 1234
    /\ launched[1].oc.returncode = 0
    /\ \E path \in GeneratedScript :
          launched[1].oc.stdout = ScriptStdout(files[path].content, 1234)
    /\ Len(result) = 1
    /\ Contains("Calculation submitted with PID: 1234\n", result[1])
    /\ Contains("Process ID: 1234\n", result[1])

====
